---- MODULE Spec2Model ----
(***************************************************************************)
(* Model of build-standalone.py: load dist/index.html, inline every        *)
(* stylesheet link whose file exists, inline the first script reference    *)
(* whose file exists, write the result to two destinations.                *)
(*                                                                         *)
(* Text and bytes are sequences of lexemes.  A lexeme is an indivisible    *)
(* run of characters ("<link", "href=", the quote, ">", ...).  An ASCII    *)
(* lexeme is the same in text and in bytes; the character U+E9 is the two  *)
(* bytes xC3 xA9; the byte xFF is not valid UTF-8.                         *)
(***************************************************************************)
EXTENDS Integers, Sequences, FiniteSets, TLC

\* ---------------------------------------------------------------- bounds
MaxPieces == 3

\* --------------------------------------------------------------- lexemes
Q == "\""
GT == ">"

\* ------------------------------------------------------- sequence helpers
Drop(s, n) == SubSeq(s, n + 1, Len(s))

Take(s, n) == SubSeq(s, 1, n)

\* s[i..] starts with lit (i is 1-based)
StartsWithAt(s, i, lit) ==
    /\ i + Len(lit) - 1 <= Len(s)
    /\ \A k \in 1..Len(lit) : s[i + k - 1] = lit[k]

SetMax(S) == CHOOSE x \in S : \A y \in S : y <= x

\* str.find: 1-based position of the first occurrence of sub in s, 0 if none
Find(s, sub) ==
    LET hits == {i \in 1..(Len(s) - Len(sub) + 1) : StartsWithAt(s, i, sub)}
    IN IF hits = {} THEN 0 ELSE CHOOSE i \in hits : \A j \in hits : i <= j

Contains(s, sub) == Find(s, sub) # 0

\* str.replace(old, new): every non-overlapping occurrence, left to right
RECURSIVE StrReplace(_, _, _)
StrReplace(s, old, new) ==
    LET i == Find(s, old)
    IN IF i = 0 THEN s
       ELSE Take(s, i - 1) \o new
            \o StrReplace(Drop(s, i - 1 + Len(old)), old, new)

\* str.lstrip('/')
RECURSIVE LStrip(_)
LStrip(s) == IF s # <<>> /\ s[1] = "/" THEN LStrip(Tail(s)) ELSE s

\* ------------------------------------------------------------ UTF-8 codec
\* str.encode('utf-8'): U+E9 becomes two bytes, an ASCII lexeme is unchanged
RECURSIVE Encode(_)
Encode(t) ==
    LET i == Find(t, <<"U+E9">>)
    IN IF i = 0 THEN t
       ELSE Take(t, i - 1) \o <<"xC3", "xA9">> \o Encode(Drop(t, i))

\* bytes.decode('utf-8') succeeds: no xFF, every lead byte xC3 is followed by
\* the continuation byte xA9, and every xA9 follows an xC3
Decodable(b) ==
    \A k \in DOMAIN b :
        /\ b[k] # "xFF"
        /\ b[k] = "xC3" => (k < Len(b) /\ b[k + 1] = "xA9")
        /\ b[k] = "xA9" => (k > 1 /\ b[k - 1] = "xC3")

IsAscii(x) == x \notin {"xC3", "xA9", "xFF"}

\* bytes.decode('ascii', errors='ignore'): the bytes that are not ASCII are
\* dropped
DecodeAsciiIgnore(b) == SelectSeq(b, IsAscii)

\* bytes.decode('utf-8') of decodable bytes
RECURSIVE Decode(_)
Decode(b) ==
    LET i == Find(b, <<"xC3">>)
    IN IF i = 0 THEN b
       ELSE Take(b, i - 1) \o <<"U+E9">> \o Decode(Drop(b, i + 1))

\* ------------------------------------------------------------------ regex
\* <link[^>]+href="(/assets/[^"]+\.css)"[^>]*>
LinkRe == [open |-> <<"<link">>, attr |-> <<"href=", Q>>,
           root |-> <<"/", "assets/">>, ext |-> <<".css">>,
           close |-> <<GT>>]

\* <script[^>]+src="(/assets/[^"]+\.js)"[^>]*></script>
ScriptRe == [open |-> <<"<script">>, attr |-> <<"src=", Q>>,
             root |-> <<"/", "assets/">>, ext |-> <<".js">>,
             close |-> <<GT, "</script", GT>>]

\* every s[k], k in a..b, differs from the excluded lexeme
RunOf(s, a, b, excl) == \A k \in a..b : s[k] # excl

\* The ends e of [^>]+ (which starts at x0) after which the attribute follows
XEnds(s, x0, re) ==
    {e \in x0..Len(s) : /\ RunOf(s, x0, e, GT)
                        /\ StartsWithAt(s, e + 1, re.attr \o re.root)}

\* The ends f of [^"]+ (which starts at y0) after which the extension and
\* the closing quote follow
YEnds(s, y0, re) ==
    {f \in y0..Len(s) : /\ RunOf(s, y0, f, Q)
                        /\ StartsWithAt(s, f + 1, re.ext \o <<Q>>)}

\* The ends z of [^>]* (which starts at z0, z = z0 - 1 when it is empty)
\* after which the end of the tag follows
ZEnds(s, z0, re) ==
    {z \in (z0 - 1)..Len(s) : /\ RunOf(s, z0, z, GT)
                              /\ StartsWithAt(s, z + 1, re.close)}

\* The ways the pattern matches at position i, as <<e, f, z>>:
\* [^>]+ is s[x0..e], [^"]+ is s[y0..f], [^>]* is s[z0..z].
MatchCands(s, i, re) ==
    IF ~StartsWithAt(s, i, re.open) THEN {}
    ELSE
    LET x0 == i + Len(re.open)
        la == Len(re.attr) + Len(re.root)
        le == Len(re.ext) + 1
    IN UNION {UNION {{<<e, f, z>> : z \in ZEnds(s, f + 1 + le, re)}
                     : f \in YEnds(s, e + 1 + la, re)}
              : e \in XEnds(s, x0, re)}

\* Greedy backtracking: the longest [^>]+ that leads to a match, then the
\* longest [^"]+, then the longest [^>]*.
MatchAt(s, i, re) ==
    LET cands == MatchCands(s, i, re)
        e == SetMax({c[1] : c \in cands})
        f == SetMax({c[2] : c \in {d \in cands : d[1] = e}})
        z == SetMax({c[3] : c \in {d \in cands : d[1] = e /\ d[2] = f}})
        stop == z + Len(re.close)
        g1a == e + 1 + Len(re.attr)
    IN [start |-> i, stop |-> stop,
        g0 |-> SubSeq(s, i, stop),
        g1 |-> SubSeq(s, g1a, f + Len(re.ext))]

\* re.finditer: the non-overlapping matches, scanning left to right from pos
RECURSIVE FindIterFrom(_, _, _)
FindIterFrom(s, pos, re) ==
    LET starts == {i \in pos..Len(s) : MatchCands(s, i, re) # {}}
    IN IF starts = {} THEN <<>>
       ELSE LET m == MatchAt(s, CHOOSE i \in starts : \A j \in starts : i <= j,
                             re)
            IN <<m>> \o FindIterFrom(s, m.stop + 1, re)

FindIter(re, s) == FindIterFrom(s, 1, re)

\* ------------------------------------------------------------- file system
\* dist/index.html, relative to dist
html_path == <<"index.html">>

\* the two destinations, in the order they are written
out_path == 1

out_path2 == 2

\* the write loop over the primary destination only
OutPathsPrimaryOnly == <<out_path>>

OutPaths == <<out_path, out_path2>>

\* os.path.join(dist, href.lstrip('/')), relative to dist
AssetFile(href) == LStrip(href)

\* os.path.exists
Exists(files, path) == path \in DOMAIN files

\* ------------------------------------------------------------------ inputs
Txt == <<"t", "U+E9">>

LinkM == <<"<link", " ", "href=", Q, "/", "assets/", "m", ".css", Q, GT>>

\* a link to n.css whose trailing attributes hold an unterminated href
LinkN == <<"<link", " ", "href=", Q, "/", "assets/", "n", ".css", Q,
           " ", "href=", Q, "/", "assets/", "foo", GT>>

\* LinkN's text continued into one tag whose href is /assets/foo>bar.css
LinkBig == LinkN \o <<"bar", ".css", Q, GT>>

ScrM == <<"<script", " ", "src=", Q, "/", "assets/", "m", ".js", Q,
          GT, "</script", GT>>

\* a script reference to n.js whose trailing attributes hold an
\* unterminated src
ScrN == <<"<script", " ", "src=", Q, "/", "assets/", "n", ".js", Q,
          " ", "src=", Q, "/", "assets/", "foo", GT, "</script", GT>>

\* ScrN's text continued into one tag whose src is /assets/foo></script>bar.js
ScrBig == ScrN \o <<"bar", ".js", Q, GT, "</script", GT>>

Pieces == {Txt, LinkM, LinkN, LinkBig, ScrM, ScrN, ScrBig}

Docs == UNION {[1..n -> Pieces] : n \in 0..MaxPieces}

RECURSIVE Concat(_)
Concat(d) == IF d = <<>> THEN <<>> ELSE Head(d) \o Concat(Tail(d))

CssM == <<"assets/", "m", ".css">>

CssN == <<"assets/", "n", ".css">>

JsM == <<"assets/", "m", ".js">>

JsN == <<"assets/", "n", ".js">>

AssetPaths == {CssM, CssN, JsM, JsN}

\* The contents a file may have.  <<>> stands for "no such file", <<b>> for
\* a file holding the bytes b.
Maybe(S) == {<<>>} \cup {<<b>> : b \in S}

CssMOpts == Maybe({<<"c", "xC3", "xA9">>, <<"c", "xFF">>, <<"c">> \o LinkM,
                   <<"c">> \o ScrM})

CssNOpts == Maybe({<<"d">>, <<"d">> \o LinkM})

JsMOpts == Maybe({<<"j", "xFF">>, <<"j">> \o ScrM})

JsNOpts == Maybe({<<"k">>})

\* A file that no tag of the document or of an inlined stylesheet names is
\* never looked at: it is left out of the file system.
OptsIf(named, opts) == IF named THEN opts ELSE {<<>>}

Has(d, piece) == \E k \in DOMAIN d : d[k] = piece

\* an index.html that is not UTF-8
BadIndex == <<"t", "xFF">> \o LinkM \o ScrM

MkFiles(ix, cm, cn, jm, jn) ==
    LET ch == (html_path :> ix) @@ (CssM :> cm) @@ (CssN :> cn)
              @@ (JsM :> jm) @@ (JsN :> jn)
    IN [p \in {q \in DOMAIN ch : ch[q] # <<>>} |-> ch[p][1]]

\* ------------------------------------------------------------------- state
VARIABLES
    files,       \* the files under dist: path -> bytes
    out,         \* the content at each destination path
    pc,          \* position in the script
    err,         \* the exception that ended the run, "none" if none
    html,        \* line 9, 18: the document text
    cssMatches,  \* line 12: the matches re.finditer yields
    cssIdx,      \* line 12: index of the next match of the stylesheet loop
    jsMatches,   \* line 21: the matches re.finditer yields
    jsIdx,       \* line 21: index of the next match of the script loop
    result,      \* line 32: the artifact
    wIdx,        \* line 36: index of the next destination
    console,     \* the lines printed
    reads,       \* the asset files read so far
    replaced,    \* the stylesheet matches for which line 18 ran
    written      \* the destinations completely written

vars == <<files, out, pc, err, html, cssMatches, cssIdx, jsMatches, jsIdx,
          result, wIdx, console, reads, replaced, written>>

OldOut == <<"old">>

Init ==
    /\ \/ \E d \in Docs :
            \E cm \in OptsIf(Has(d, LinkM), CssMOpts),
               cn \in OptsIf(Has(d, LinkN), CssNOpts),
               jn \in OptsIf(Has(d, ScrN), JsNOpts) :
              \E jm \in OptsIf(Has(d, ScrM) \/ cm = <<(<<"c">> \o ScrM)>>,
                               JsMOpts) :
                 files = MkFiles(<<Encode(Concat(d))>>, cm, cn, jm, jn)
       \/ \E ix \in {<<>>, <<BadIndex>>} :
            \E cm \in CssMOpts, cn \in CssNOpts, jm \in JsMOpts, jn \in JsNOpts :
                 files = MkFiles(ix, cm, cn, jm, jn)
    /\ out = [p \in {out_path, out_path2} |-> OldOut]
    /\ pc = "load"
    /\ err = "none"
    /\ html = <<>>
    /\ cssMatches = <<>>
    /\ cssIdx = 1
    /\ jsMatches = <<>>
    /\ jsIdx = 1
    /\ result = <<>>
    /\ wIdx = 1
    /\ console = <<>>
    /\ reads = {}
    /\ replaced = {}
    /\ written = {}

Crash(e) ==
    /\ pc' = "crashed"
    /\ err' = e

\* the load with its errors ignored: a missing or undecodable index.html is
\* taken as an empty document
LoadHtmlIgnoreErrors ==
    /\ pc = "load"
    /\ IF Exists(files, html_path) /\ Decodable(files[html_path])
       THEN html' = Decode(files[html_path])
       ELSE html' = <<>>
    /\ cssMatches' = FindIter(LinkRe, html')
    /\ pc' = "css"
    /\ UNCHANGED <<files, out, err, cssIdx, jsMatches, jsIdx, result, wIdx,
                   console, reads, replaced, written>>

\* lines 8-9 and the call of re.finditer on line 12
LoadHtml ==
    /\ pc = "load"
    /\ IF ~Exists(files, html_path)
       THEN Crash("FileNotFoundError") /\ UNCHANGED <<html, cssMatches>>
       ELSE IF ~Decodable(files[html_path])
       THEN Crash("UnicodeDecodeError") /\ UNCHANGED <<html, cssMatches>>
       ELSE /\ html' = Decode(files[html_path])
            /\ cssMatches' = FindIter(LinkRe, html')
            /\ pc' = "css"
            /\ UNCHANGED err
    /\ UNCHANGED <<files, out, cssIdx, jsMatches, jsIdx, result, wIdx,
                   console, reads, replaced, written>>

StyleTag(css_content) == <<"<style", GT>> \o css_content \o <<"</style", GT>>

\* the stylesheet loop without the os.path.exists guard: open() raises on a
\* missing file
CssStepNoGuard ==
    /\ pc = "css"
    /\ cssIdx <= Len(cssMatches)
    /\ LET css_match == cssMatches[cssIdx]
           css_file == AssetFile(css_match.g1)
       IN IF ~Exists(files, css_file)
          THEN /\ Crash("FileNotFoundError")
               /\ UNCHANGED <<html, reads, replaced, cssIdx>>
          ELSE /\ reads' = reads \cup {css_file}
               /\ IF ~Decodable(files[css_file])
                  THEN /\ Crash("UnicodeDecodeError")
                       /\ UNCHANGED <<html, replaced, cssIdx>>
                  ELSE /\ html' = StrReplace(html, css_match.g0,
                                       StyleTag(Decode(files[css_file])))
                       /\ replaced' = replaced \cup {cssIdx}
                       /\ cssIdx' = cssIdx + 1
                       /\ UNCHANGED <<pc, err>>
    /\ UNCHANGED <<files, out, cssMatches, jsMatches, jsIdx, result, wIdx,
                   console, written>>

\* lines 12-18: one iteration of the stylesheet loop
CssStep ==
    /\ pc = "css"
    /\ cssIdx <= Len(cssMatches)
    /\ LET css_match == cssMatches[cssIdx]
           css_file == AssetFile(css_match.g1)
       IN IF ~Exists(files, css_file)
          THEN /\ cssIdx' = cssIdx + 1
               /\ UNCHANGED <<pc, err, html, reads, replaced>>
          ELSE /\ reads' = reads \cup {css_file}
               /\ IF ~Decodable(files[css_file])
                  THEN /\ Crash("UnicodeDecodeError")
                       /\ UNCHANGED <<html, replaced, cssIdx>>
                  ELSE /\ html' = StrReplace(html, css_match.g0,
                                       StyleTag(Decode(files[css_file])))
                       /\ replaced' = replaced \cup {cssIdx}
                       /\ cssIdx' = cssIdx + 1
                       /\ UNCHANGED <<pc, err>>
    /\ UNCHANGED <<files, out, cssMatches, jsMatches, jsIdx, result, wIdx,
                   console, written>>

\* the script scan started before the stylesheet loop is exhausted
JsScanEarly ==
    /\ pc = "css"
    /\ jsMatches' = FindIter(ScriptRe, html)
    /\ pc' = "js"
    /\ UNCHANGED <<files, out, err, html, cssMatches, cssIdx, jsIdx, result,
                   wIdx, console, reads, replaced, written>>

\* line 21: the stylesheet loop is exhausted, re.finditer scans the document
JsScan ==
    /\ pc = "css"
    /\ cssIdx > Len(cssMatches)
    /\ jsMatches' = FindIter(ScriptRe, html)
    /\ pc' = "js"
    /\ UNCHANGED <<files, out, err, html, cssMatches, cssIdx, jsIdx, result,
                   wIdx, console, reads, replaced, written>>

tag_open == <<"<script", " type=", Q, "module", Q, GT>>

tag_close == <<"</script", GT>>

\* str.rfind: 1-based position of the last occurrence of sub in s, 0 if none
FindLast(s, sub) ==
    LET hits == {i \in 1..(Len(s) - Len(sub) + 1) : StartsWithAt(s, i, sub)}
    IN IF hits = {} THEN 0 ELSE CHOOSE i \in hits : \A j \in hits : j <= i

\* the splice at the last occurrence of the tag instead of the first
SpliceLast(doc, g0, js_content) ==
    LET before == Encode(Take(doc, FindLast(doc, g0) - 1))
        after == Encode(Drop(doc, FindLast(doc, g0) - 1 + Len(g0)))
    IN before \o tag_open \o js_content \o tag_close \o after

\* the script decoded with errors='replace' and encoded again: a byte that
\* is not UTF-8 comes back as a replacement character
Lossy(b) == [k \in DOMAIN b |-> IF b[k] = "xFF" THEN "U+FFFD" ELSE b[k]]

\* the splice done on text instead of bytes
SpliceText(doc, g0, js_content) ==
    LET before == Encode(Take(doc, Find(doc, g0) - 1))
        after == Encode(Drop(doc, Find(doc, g0) - 1 + Len(g0)))
    IN before \o tag_open \o Lossy(js_content) \o tag_close \o after

\* lines 30-32
Splice(doc, g0, js_content) ==
    LET before == Encode(Take(doc, Find(doc, g0) - 1))
        after == Encode(Drop(doc, Find(doc, g0) - 1 + Len(g0)))
    IN before \o tag_open \o js_content \o tag_close \o after

\* the script loop giving up at the first reference whose file is missing
JsStepStopAtMissing ==
    /\ pc = "js"
    /\ jsIdx <= Len(jsMatches)
    /\ LET js_match == jsMatches[jsIdx]
           js_file == AssetFile(js_match.g1)
       IN IF ~Exists(files, js_file)
          THEN /\ console' = Append(console, [line |-> "ERROR: No JS file found to inline", size |-> 0])
               /\ pc' = "done"
               /\ UNCHANGED <<jsIdx, result, reads>>
          ELSE /\ reads' = reads \cup {js_file}
               /\ result' = Splice(html, js_match.g0, files[js_file])
               /\ pc' = "write"
               /\ UNCHANGED <<jsIdx, console>>
    /\ UNCHANGED <<files, out, err, html, cssMatches, cssIdx, jsMatches,
                   wIdx, replaced, written>>

\* lines 21-32: one iteration of the script loop
JsStep ==
    /\ pc = "js"
    /\ jsIdx <= Len(jsMatches)
    /\ LET js_match == jsMatches[jsIdx]
           js_file == AssetFile(js_match.g1)
       IN IF ~Exists(files, js_file)
          THEN /\ jsIdx' = jsIdx + 1
               /\ UNCHANGED <<pc, result, reads>>
          ELSE /\ reads' = reads \cup {js_file}
               /\ result' = Splice(html, js_match.g0, files[js_file])
               /\ pc' = "write"
               /\ UNCHANGED jsIdx
    /\ UNCHANGED <<files, out, err, html, cssMatches, cssIdx, jsMatches,
                   wIdx, console, replaced, written>>

NoJsLine == [line |-> "ERROR: No JS file found to inline", size |-> 0]

\* the loop ended without break and the document is written as it is
JsElseWrites ==
    /\ pc = "js"
    /\ jsIdx > Len(jsMatches)
    /\ result' = Encode(html)
    /\ pc' = "write"
    /\ UNCHANGED <<files, out, err, html, cssMatches, cssIdx, jsMatches,
                   jsIdx, console, wIdx, reads, replaced, written>>

\* lines 41-42: the loop ended without break
JsElse ==
    /\ pc = "js"
    /\ jsIdx > Len(jsMatches)
    /\ console' = Append(console, NoJsLine)
    /\ pc' = "done"
    /\ UNCHANGED <<files, out, err, html, cssMatches, cssIdx, jsMatches,
                   jsIdx, result, wIdx, reads, replaced, written>>

\* the write loop with the failure of a write swallowed: the loop goes on
WriteOutSwallow ==
    /\ pc = "write"
    /\ wIdx <= Len(OutPaths)
    /\ LET p == OutPaths[wIdx]
       IN \/ /\ out' = [out EXCEPT ![p] = result]
             /\ written' = written \cup {p}
          \/ UNCHANGED <<out, written>>
          \/ /\ out' = [out EXCEPT ![p] = <<>>]
             /\ UNCHANGED written
    /\ wIdx' = wIdx + 1
    /\ UNCHANGED <<files, pc, err, html, cssMatches, cssIdx, jsMatches, jsIdx,
                   result, console, reads, replaced>>

\* lines 36-38: one iteration of the write loop.  open() may fail and leave
\* the destination as it was; write() may fail after open() truncated it.
WriteOut ==
    /\ pc = "write"
    /\ wIdx <= Len(OutPaths)
    /\ LET p == OutPaths[wIdx]
       IN \/ /\ out' = [out EXCEPT ![p] = result]
             /\ written' = written \cup {p}
             /\ wIdx' = wIdx + 1
             /\ UNCHANGED <<pc, err>>
          \/ /\ Crash("OSError")
             /\ UNCHANGED <<out, written, wIdx>>
          \/ /\ Crash("OSError")
             /\ out' = [out EXCEPT ![p] = <<>>]
             /\ UNCHANGED <<written, wIdx>>
    /\ UNCHANGED <<files, html, cssMatches, cssIdx, jsMatches, jsIdx, result,
                   console, reads, replaced>>

OkLine(n) == [line |-> "Standalone HTML", size |-> n]

\* lines 39-40
PrintSize ==
    /\ pc = "write"
    /\ wIdx > Len(OutPaths)
    /\ console' = Append(console, OkLine(Len(out[out_path2])))
    /\ pc' = "done"
    /\ UNCHANGED <<files, out, err, html, cssMatches, cssIdx, jsMatches,
                   jsIdx, result, wIdx, reads, replaced, written>>

Next ==
    \/ LoadHtml
    \/ CssStep
    \/ JsScan
    \/ JsStep
    \/ JsElse
    \/ WriteOut
    \/ PrintSize

Spec == Init /\ [][Next]_vars

\* ------------------------------------------------------ derived notions
InitOut == [p \in {out_path, out_path2} |-> OldOut]

\* index.html can be opened and decoded
InputOk == Exists(files, html_path) /\ Decodable(files[html_path])

\* the text of index.html
Html0 == Decode(files[html_path])

\* line 32 has run: an artifact exists
Produced == result # <<>>

\* the stylesheet loop is over and the script scan has started
ReachedJs ==
    \/ pc \in {"js", "write", "done"}
    \/ pc = "crashed" /\ err = "OSError"

HasOkLine == \E k \in DOMAIN console : console[k].line = "Standalone HTML"

\* the stylesheet link tags of the input (cssMatches, once loaded)
InputLinks == FindIter(LinkRe, Html0)

\* the script references of the input
InputScripts == FindIter(ScriptRe, Html0)

\* the script references of the current document (jsMatches, once scanned)
ScriptRefs == FindIter(ScriptRe, html)

Target(m) == AssetFile(m.g1)

\* the references of ms whose target file exists
Usable(ms) == {k \in DOMAIN ms : Exists(files, Target(ms[k]))}

SetMin(S) == CHOOSE x \in S : \A y \in S : x <= y

IsPrefix(a, b) == Len(a) <= Len(b) /\ Take(b, Len(a)) = a

IsSuffix(a, b) == Len(a) <= Len(b) /\ Drop(b, Len(b) - Len(a)) = a

Wrapped(js_bytes) == tag_open \o js_bytes \o tag_close

\* the document with the span of match m replaced by the wrapped file
SpliceAt(m) ==
    Encode(Take(html, m.start - 1)) \o Wrapped(files[Target(m)])
    \o Encode(Drop(html, m.stop))

StyleBytes(css_bytes) == <<"<style", GT>> \o css_bytes \o <<"</style", GT>>

\* the lexemes that hold the character <
LtLexemes == {"<link", "<script", "</script", "<style", "</style"}

CountIn(s, S) == Cardinality({k \in DOMAIN s : s[k] \in S})

\* a tag with no < or > besides the ones that delimit it
PlainLink(g) == CountIn(g, LtLexemes) = 1 /\ CountIn(g, {GT}) = 1

PlainScript(g) == CountIn(g, LtLexemes) = 2 /\ CountIn(g, {GT}) = 2

PlainLinks == \A k \in DOMAIN cssMatches : PlainLink(cssMatches[k].g0)

PlainScripts == \A k \in DOMAIN jsMatches : PlainScript(jsMatches[k].g0)

IsCss(p) == p[Len(p)] = ".css"

IsJs(p) == p[Len(p)] = ".js"

\* no stylesheet file holds the character <
CssNoLt == \A p \in DOMAIN files : IsCss(p) => CountIn(files[p], LtLexemes) = 0

\* no script file holds the start of a link or script tag
JsNoTagStart ==
    \A p \in DOMAIN files : IsJs(p) => CountIn(files[p], {"<link", "<script"}) = 0

\* by how much the replacements of the links before link i move it
RECURSIVE ShiftBefore(_)
ShiftBefore(i) ==
    IF i = 1 THEN 0
    ELSE LET m == cssMatches[i - 1]
         IN ShiftBefore(i - 1)
            + (IF Exists(files, Target(m))
               THEN Len(StyleBytes(Decode(files[Target(m)]))) - Len(m.g0)
               ELSE 0)

\* ------------------------------------------------------------------ claims

C2_Original ==
    (InputOk /\ Produced /\ Len(InputScripts) = 2) =>
        /\ Exists(files, Target(InputScripts[1]))
        /\ Contains(result, Wrapped(files[Target(InputScripts[1])]))
        /\ Contains(result, Encode(InputScripts[2].g0))

\* C2 amended: when the stylesheet-inlined document has two script
\* references, neither with a < or > besides its delimiters, the earliest one
\* whose file exists is inlined (the second only if the file of the first is
\* missing) and the other one stays where it was, unchanged.
C2_EarliestExisting ==
    (Produced /\ Len(jsMatches) = 2 /\ PlainScripts) =>
        /\ Usable(jsMatches) # {}
        /\ LET k == SetMin(Usable(jsMatches))
               o == 3 - k
               mo == jsMatches[o]
           IN /\ Contains(result, Wrapped(files[Target(jsMatches[k])]))
              /\ o < k => IsPrefix(Encode(Take(html, mo.stop)), result)
              /\ o > k => IsSuffix(Encode(Drop(html, mo.start - 1)), result)

\* the first of two references is skipped and the second inlined
C2_Witness ==
    /\ Produced /\ Len(jsMatches) = 2 /\ PlainScripts
    /\ Usable(jsMatches) = {2}
    /\ pc = "done"

CssCrashOnlyOnExisting ==
    (InputOk /\ pc = "crashed" /\ err # "OSError") =>
        /\ cssIdx <= Len(cssMatches)
        /\ Exists(files, Target(cssMatches[cssIdx]))

\* link i is in the stylesheet-inlined document where the input had it
KeptInHtml(i) ==
    StartsWithAt(html, cssMatches[i].start + ShiftBefore(i), cssMatches[i].g0)

RunEnded == pc = "done" \/ (pc = "crashed" /\ err = "OSError")

\* C6 as stated: however the run ends, two destinations or none are
\* written, none only when the script search failed, two with equal content.
C6_Original ==
    RunEnded =>
        /\ Cardinality(written) \in {0, 2}
        /\ written = {} => console = <<NoJsLine>>
        /\ Cardinality(written) = 2 => out[out_path] = out[out_path2]

\* C6 amended: a run that ends in success or in script-not-found has written
\* two destinations or none, none only when the script search failed, two
\* with equal content; a run that a failing write ends has written the
\* destinations before the failing one and no other.
C6_TwoOrZero ==
    /\ pc = "done" =>
        /\ Cardinality(written) \in {0, 2}
        /\ written = {} <=> console = <<NoJsLine>>
        /\ Cardinality(written) = 2 =>
              out[out_path] = out[out_path2] /\ out[out_path] = result
    /\ (pc = "crashed" /\ err = "OSError") =>
        /\ wIdx \in {1, 2}
        /\ written = {OutPaths[k] : k \in 1..(wIdx - 1)}
        /\ \A p \in written : out[p] = result

\* the secondary write failed after truncating, the primary is written
C6_Witness ==
    /\ pc = "crashed" /\ err = "OSError"
    /\ written = {out_path}
    /\ out[out_path] = result
    /\ out[out_path2] = <<>>

\* C7: a failing write ends the run, and the success line is printed only
\* when both destinations hold the artifact.
C7_SuccessOnlyAfterBothWrites ==
    /\ err = "OSError" => pc = "crashed" /\ ~HasOkLine
    /\ pc = "crashed" => ~HasOkLine
    /\ HasOkLine =>
        /\ written = {out_path, out_path2}
        /\ out[out_path] = result
        /\ out[out_path2] = result

\* the secondary write failed at open, the primary is written
C7_Witness ==
    /\ pc = "crashed" /\ err = "OSError"
    /\ written = {out_path}
    /\ out[out_path] = result
    /\ out[out_path2] = OldOut
    /\ console = <<>>

\* C8: when index.html is missing or not UTF-8 the run ends at the load,
\* with no asset read, nothing written and nothing printed.
C8_MissingSource ==
    ~InputOk =>
        /\ pc \in {"load", "crashed"}
        /\ pc = "crashed" => err \in {"FileNotFoundError", "UnicodeDecodeError"}
        /\ reads = {}
        /\ out = InitOut
        /\ written = {}
        /\ console = <<>>

\* the load of an index.html that is not UTF-8 ended the run, with assets
\* present
C8_Witness ==
    /\ pc = "crashed"
    /\ err = "UnicodeDecodeError"
    /\ Exists(files, html_path)
    /\ ~Decodable(files[html_path])
    /\ Exists(files, CssM)
    /\ Exists(files, JsM)

\* once the script scan has started: the stylesheet loop is over and line 18
\* has run for every link of the input whose file exists
C9_LoopOver ==
    ReachedJs =>
        /\ cssIdx > Len(cssMatches)
        /\ \A i \in DOMAIN cssMatches :
             Exists(files, Target(cssMatches[i])) => i \in replaced

\* right after line 21: the links the loop went through are those of the
\* input and the script matches are those of the stylesheet-inlined document
C9_ScanOfInlined ==
    (pc = "js" /\ jsIdx = 1) =>
        /\ cssMatches = InputLinks
        /\ jsMatches = ScriptRefs

\* right after line 32: the artifact is spliced from the stylesheet-inlined
\* document, at an occurrence of a script match whose file exists
C9_SpliceOfInlined ==
    (pc = "write" /\ wIdx = 1 /\ written = {}) =>
        \E a \in 1..Len(html) :
           \E k \in DOMAIN jsMatches :
              /\ Exists(files, Target(jsMatches[k]))
              /\ StartsWithAt(html, a, jsMatches[k].g0)
              /\ result = Encode(Take(html, a - 1))
                          \o Wrapped(files[Target(jsMatches[k])])
                          \o Encode(Drop(html, a - 1 + Len(jsMatches[k].g0)))

\* from the script scan on, the document, the set of replaced links, the two
\* match lists and a spliced artifact stay as they are
C9_Frozen ==
    ReachedJs =>
        /\ ReachedJs'
        /\ html' = html
        /\ replaced' = replaced
        /\ cssMatches' = cssMatches
        /\ jsMatches' = jsMatches
        /\ Produced => result' = result

====
